---- MODULE Spec2Model ----
(***************************************************************************)
(* txdav.caldav.datastore.sql: the SQL calendar-object store.              *)
(*                                                                         *)
(* The model covers CalendarObject.setComponent / updateDatabase (the      *)
(* expansion-horizon policy, the record write, the delete and rebuild of   *)
(* the TIME_RANGE / TRANSPARENCY index) and the attachment store           *)
(* (createAttachmentWithName, AttachmentStorageTransport, removeAttachment *)
(* WithName, Attachment._populate), running inside one ambient             *)
(* transaction that the caller commits or aborts.                          *)
(*                                                                         *)
(* Time: an instant is a number of hours since 1970-01-01T00:00Z, a date   *)
(* is a number of days since 1970-01-01; Midnight(d) turns a date into the *)
(* instant it starts at.                                                   *)
(***************************************************************************)
EXTENDS Integers, Sequences, FiniteSets, TLC

VARIABLES
    today,      \* datetime.date.today(), in days
    migrating,  \* self._txn._migrating of the ambient transaction
    db,         \* the tables as the ambient transaction sees them
    committed,  \* the tables as of the last commit
    seq,        \* the database sequences (never rolled back)
    mem,        \* the CalendarObject instances: _resourceID and _objectText
    files,      \* the attachment files present on disk: path -> bytes
    sinks,      \* the open AttachmentStorageTransport objects of the transaction
    postCommit, \* the callbacks registered with self._txn.postCommit
    closed,     \* history: attachment names on which loseConnection has run
    noRow,      \* history: the paths whose removal was requested in this transaction
                \* while the object had no ATTACHMENT row of that name
    race,       \* the transactions that write one attachment concurrently, each with
                \* its sink; order is the history of the closes that completed
    count,      \* history: the upserts that succeeded, the sinks created, the removals requested;
                \* buf is the longest buffer a write sink may hold
    last        \* history: the operation that produced this state

vars == <<today, migrating, db, committed, seq, mem, files, sinks, postCommit, closed, noRow, race, count, last>>

----------------------------------------------------------------------------
(* Bounds of the model *)

\* the day the model starts on
Day0 == 14914
\* how many times the date may change
MaxTicks == 1
\* how many upserts may succeed
MaxUpserts == 2
\* the longest buffer a write sink holds
MaxBuf == 1
\* how many write sinks are created
MaxSinks == 2
\* how many times an attachment is removed
MaxRemoves == 1
\* the longest attachment of a single transfer
MaxTransfer == 3

----------------------------------------------------------------------------
(* Dates and instants *)

Midnight(d) == d * 24

\* datetime.datetime(2100, 1, 1, 0, 0, 0, tzinfo=utc), as a date
FarFutureDay == 47482
FarFuture == Midnight(FarFutureDay)
\* datetime.datetime(2100, 1, 1, 1, 0, 0, tzinfo=utc)
FarFutureEnd == FarFuture + 1

default_future_expansion_duration == 365 * 1
maximum_future_expansion_duration == 365 * 5

\* expand_until=None
NoDate == 0
\* a NULL column, a None attribute
Null == 0
NoText == ""

----------------------------------------------------------------------------
(* Free/busy codes *)

FBSymbols == {"UNKNOWN", "FREE", "BUSY", "BUSY-UNAVAILABLE", "BUSY-TENTATIVE"}

icalfbtype_to_indexfbtype(s) ==
    CASE s = "UNKNOWN" -> 0
      [] s = "FREE" -> 1
      [] s = "BUSY" -> 2
      [] s = "BUSY-UNAVAILABLE" -> 3
      [] s = "BUSY-TENTATIVE" -> 4

\* icalfbtype_to_indexfbtype.get(fb, icalfbtype_to_indexfbtype["FREE"])
FBCode(s) == IF s \in FBSymbols THEN icalfbtype_to_indexfbtype(s) ELSE icalfbtype_to_indexfbtype("FREE")

----------------------------------------------------------------------------
(* Calendar components: the parsed-component capability.                   *)
(* An instance is [rid, start, end, fb, transp]; start and end are         *)
(* [wall, tz] with tz "UTC" or "none" (floating). A component lists the    *)
(* occurrences of its series that fall in the model's window.              *)

Users == {"u1", "u2"}

At(d, h, tz) == [wall |-> Midnight(Day0 + d) + h, tz |-> tz]

Occ(d, tz, fb, transp) ==
    [rid |-> d, start |-> At(d, 9, tz), end |-> At(d, 10, tz), fb |-> fb, transp |-> transp]

\* rid 0 stands for perUserTransparency(None), the series-level lookup
PerUser(rid, user, transp) == [rid |-> rid, user |-> user, transp |-> transp]

Component(text, uid, organizer, master, recurring, unbounded, occ, invalid, peruser) ==
    [text |-> text, uid |-> uid, organizer |-> organizer, master |-> master,
     recurring |-> recurring, unbounded |-> unbounded, occ |-> occ,
     invalid |-> invalid, peruser |-> peruser]

\* one event, floating, transparent for u1
Single ==
    Component("single", "uid-1", "", TRUE, FALSE, FALSE,
              {Occ(10, "none", "FREE", TRUE)}, {}, {PerUser(10, "u1", TRUE)})
\* a bounded series of three occurrences inside the default window
Bounded3 ==
    Component("bounded3", "uid-2", "mailto:org", TRUE, TRUE, FALSE,
              {Occ(10, "UTC", "BUSY", FALSE), Occ(17, "UTC", "BUSY", FALSE),
               Occ(24, "UTC", "BUSY-TENTATIVE", FALSE)}, {}, {})
\* the same series with one occurrence removed
Bounded2 ==
    Component("bounded2", "uid-2", "mailto:org", TRUE, TRUE, FALSE,
              {Occ(10, "UTC", "BUSY", FALSE), Occ(24, "UTC", "BUSY-TENTATIVE", FALSE)}, {}, {})
\* an unbounded series: occurrences on both sides of the default and of the
\* maximum window, per-user transparency on the series and on one instance
Unbounded ==
    Component("unbounded", "uid-3", "mailto:org", TRUE, TRUE, TRUE,
              {Occ(10, "UTC", "BUSY", FALSE), Occ(365, "UTC", "BUSY", FALSE),
               Occ(1824, "UTC", "X-OTHER", FALSE), Occ(1830, "UTC", "BUSY", FALSE)}, {},
              {PerUser(0, "u1", TRUE), PerUser(0, "u2", FALSE), PerUser(10, "u2", TRUE)})
\* overridden instances without a master, one of them beyond the maximum window
Overrides ==
    Component("overrides", "uid-4", "", FALSE, TRUE, FALSE,
              {Occ(10, "UTC", "BUSY", FALSE), Occ(1830, "UTC", "BUSY", FALSE)}, {}, {})
\* a bounded series with an invalid overridden instance
Invalid ==
    Component("invalid", "uid-5", "", TRUE, TRUE, FALSE,
              {Occ(10, "UTC", "BUSY", FALSE), Occ(17, "UTC", "BUSY", FALSE)}, {17}, {})
Components == {Single, Bounded3, Bounded2, Unbounded, Overrides, Invalid}

NoComp == Component("", "", "", FALSE, FALSE, FALSE, {}, {}, {})

\* component.masterComponent() is not None, isRecurring(), isRecurringUnbounded()
masterComponent(c) == c.master
isRecurring(c) == c.recurring
isRecurringUnbounded(c) == c.unbounded

\* component.expandTimeRanges(expand, ignoreInvalidInstances) raises
\* InvalidOverriddenInstanceError
ExpandRaises(c, ignoreInvalidInstances) == c.invalid # {} /\ ~ignoreInvalidInstances

\* component.expandTimeRanges(expand, ignoreInvalidInstances): the instances up to
\* the horizon, the invalid ones left out
expandTimeRanges(c, expand, ignoreInvalidInstances) ==
    {i \in c.occ : i.rid \notin c.invalid /\ i.start.wall < expand}

\* instances.limit is None
NoInstant == [wall |-> 0, tz |-> ""]

\* instances.limit: the last instance start of a bounded recurrence, else unset
InstancesLimit(c, instances) ==
    IF c.unbounded \/ instances = {} THEN NoInstant
    ELSE (CHOOSE i \in instances : \A j \in instances : j.start.wall <= i.start.wall).start

\* normalizeForIndex(dt): the instant as UTC
normalizeForIndex(dt) == dt.wall

\* component.perUserTransparency(rid)
perUserTransparency(c, rid) == {p \in c.peruser : p.rid = rid}

\* str(component)
ComponentText(c) == c.text

\* component.getOrganizer()
getOrganizer(c) == c.organizer

\* component.resourceUID()
resourceUID(c) == c.uid

----------------------------------------------------------------------------
(* The tables.  db and committed are records of                            *)
(*   obj  CALENDAR_OBJECT  [id, name, text, uid, organizer, recurrance_max]*)
(*   tr   TIME_RANGE       [id, obj, floating, start, end, fbtype,         *)
(*                          transparent]                                   *)
(*   tp   TRANSPARENCY     [inst, user, transparent]                       *)
(*   att  ATTACHMENT       [obj, ctype, size, md5, path]                   *)
(*   hz   history, not a table: per object, the horizon and the override   *)
(*        of the upsert that built its rows (rolled back with the rows)    *)

Names == {"a.ics", "b.ics"}

EmptyTables == [obj |-> {}, tr |-> {}, tp |-> {}, att |-> {}, hz |-> {}]

ObjectRows(tabs, name) == {o \in tabs.obj : o.name = name}
ResourceIdOf(tabs, name) ==
    IF ObjectRows(tabs, name) = {} THEN Null ELSE (CHOOSE o \in ObjectRows(tabs, name) : TRUE).id

\* the TIME_RANGE rows and the TRANSPARENCY rows of one object
TimeRangeOf(tabs, resid) == {r \in tabs.tr : r.obj = resid}
TransparencyOf(tabs, resid) == {t \in tabs.tp : \E r \in TimeRangeOf(tabs, resid) : r.id = t.inst}

----------------------------------------------------------------------------
(* CalendarObject.updateDatabase *)

\* master is None or not component.isRecurring() and not component.isRecurringUnbounded()
IndexAll(c) == ~masterComponent(c) \/ (~isRecurring(c) /\ ~isRecurringUnbounded(c))

\* mutant: the caller's override wins over the fixed far-future horizon
ExpandHorizon_OverrideFirst(c, expand_until, td) ==
    IF expand_until # NoDate THEN Midnight(expand_until)
    ELSE IF IndexAll(c) THEN FarFuture
    ELSE Midnight(td + default_future_expansion_duration)

\* the value of expand
ExpandHorizon(c, expand_until, td) ==
    IF IndexAll(c) THEN FarFuture
    ELSE IF expand_until # NoDate THEN Midnight(expand_until)
    ELSE Midnight(td + default_future_expansion_duration)

\* mutant: the cap compares with >=
HorizonExceeded_NonStrict(c, expand_until, td) ==
    /\ ~IndexAll(c)
    /\ ExpandHorizon(c, expand_until, td) >= Midnight(td + maximum_future_expansion_duration)

\* mutant: the cap is tested against the default window of the override-less call only
HorizonExceeded_DefaultOnly(c, expand_until, td) ==
    /\ ~IndexAll(c)
    /\ expand_until = NoDate
    /\ ExpandHorizon(c, expand_until, td) > Midnight(td + maximum_future_expansion_duration)

\* expand > (datetime.date.today() + maximum_future_expansion_duration), which
\* raises IndexedSearchException
HorizonExceeded(c, expand_until, td) ==
    /\ ~IndexAll(c)
    /\ ExpandHorizon(c, expand_until, td) > Midnight(td + maximum_future_expansion_duration)

\* mutant: the failure is re-raised whatever the transaction does
ExpansionFails_NoRecovery(c, reCreate, mig) == ExpandRaises(c, reCreate)

\* the except clause: the failure is re-raised unless the transaction migrates
ExpansionFails(c, reCreate, mig) == ExpandRaises(c, reCreate) /\ ~mig

\* instances, from the first call or from the retry that ignores invalid instances
Instances(c, expand, reCreate) ==
    IF ExpandRaises(c, reCreate) THEN expandTimeRanges(c, expand, TRUE)
    ELSE expandTimeRanges(c, expand, reCreate)

\* insert into CALENDAR_OBJECT ... returning RESOURCE_ID
InsertCalendarObject(tabs, resid, name, text, uid, organizer, recmax) ==
    [tabs EXCEPT !.obj = @ \cup {[id |-> resid, name |-> name, text |-> text, uid |-> uid,
                                  organizer |-> organizer, recurrance_max |-> recmax]}]

\* mutant: the update leaves RECURRANCE_MAX as it was
UpdateCalendarObject_KeepsMax(tabs, resid, text, uid, organizer, recmax) ==
    [tabs EXCEPT !.obj = {IF o.id = resid
                          THEN [o EXCEPT !.text = text, !.uid = uid, !.organizer = organizer]
                          ELSE o : o \in @}]

\* update CALENDAR_OBJECT set ... where RESOURCE_ID = %s
UpdateCalendarObject(tabs, resid, text, uid, organizer, recmax) ==
    [tabs EXCEPT !.obj = {IF o.id = resid
                          THEN [o EXCEPT !.text = text, !.uid = uid, !.organizer = organizer,
                                         !.recurrance_max = recmax]
                          ELSE o : o \in @}]

\* TRANSPARENCY.TIME_RANGE_INSTANCE_ID references TIME_RANGE on delete cascade
CascadeTransparency(tabs) ==
    [tabs EXCEPT !.tp = {t \in @ : \E r \in tabs.tr : r.id = t.inst}]

\* mutant: the delete is keyed by the row id instead of the owning object
DeleteTimeRange_ById(tabs, resid) ==
    CascadeTransparency([tabs EXCEPT !.tr = {r \in @ : r.id # resid}])

\* mutant: the delete has no where clause
DeleteTimeRange_All(tabs, resid) ==
    CascadeTransparency([tabs EXCEPT !.tr = {}])

\* mutant: the existing rows are kept
DeleteTimeRange_Skipped(tabs, resid) == tabs

\* delete from TIME_RANGE where CALENDAR_OBJECT_RESOURCE_ID = %s
DeleteTimeRange(tabs, resid) ==
    CascadeTransparency([tabs EXCEPT !.tr = {r \in @ : r.obj # resid}])

TimeRangeRow(id, resid, floating, start, end, fbtype, transp) ==
    [id |-> id, obj |-> resid, floating |-> floating, start |-> start, end |-> end,
     fbtype |-> fbtype, transparent |-> transp]

TransparencyRow(instanceid, useruid, transp) ==
    [inst |-> instanceid, user |-> useruid, transparent |-> transp]

\* the INSTANCE_ID the sequence returns for the insert of instance i: the loop
\* runs over the instances in key order
InstanceId(i, instances, base) == base + Cardinality({j \in instances : j.rid < i.rid}) + 1

\* mutant: every instance gets the series-level per-user transparency
InsertInstances_SeriesLevel(tabs, base, resid, c, instances) ==
    [tabs EXCEPT
       !.tr = @ \cup {TimeRangeRow(InstanceId(i, instances, base), resid, i.start.tz = "none",
                                   i.start.wall, i.end.wall, FBCode(i.fb), i.transp)
                      : i \in instances},
       !.tp = @ \cup UNION {{TransparencyRow(InstanceId(i, instances, base), p.user, p.transp)
                             : p \in perUserTransparency(c, Null)} : i \in instances}]

\* the loop over instances: one TIME_RANGE row each, and its TRANSPARENCY rows
InsertInstances(tabs, base, resid, c, instances) ==
    [tabs EXCEPT
       !.tr = @ \cup {TimeRangeRow(InstanceId(i, instances, base), resid, i.start.tz = "none",
                                   i.start.wall, i.end.wall, FBCode(i.fb), i.transp)
                      : i \in instances},
       !.tp = @ \cup UNION {{TransparencyRow(InstanceId(i, instances, base), p.user, p.transp)
                             : p \in perUserTransparency(c, i.rid)} : i \in instances}]

\* mutant: the row for "infinity" is written with the FREE code
InsertSentinel_Free(tabs, base, resid, c) ==
    [tabs EXCEPT
       !.tr = @ \cup {TimeRangeRow(base + 1, resid, FALSE, FarFuture, FarFutureEnd,
                                   icalfbtype_to_indexfbtype("FREE"), TRUE)},
       !.tp = @ \cup {TransparencyRow(base + 1, p.user, p.transp)
                      : p \in perUserTransparency(c, Null)}]

\* the row for "infinity" of an unbounded recurrence, and its TRANSPARENCY rows
InsertSentinel(tabs, base, resid, c) ==
    [tabs EXCEPT
       !.tr = @ \cup {TimeRangeRow(base + 1, resid, FALSE, FarFuture, FarFutureEnd,
                                   icalfbtype_to_indexfbtype("UNKNOWN"), TRUE)},
       !.tp = @ \cup {TransparencyRow(base + 1, p.user, p.transp)
                      : p \in perUserTransparency(c, Null)}]

Raised(err, expand) ==
    [ok |-> FALSE, err |-> err, expand |-> expand, db |-> db, seq |-> seq, mem |-> mem]

\* the statements of updateDatabase, after the horizon and the expansion succeeded
WriteDatabase(name, c, expand, reCreate, inserting) ==
    LET instances == Instances(c, expand, reCreate)
        componentText == ComponentText(c)
        organizer == getOrganizer(c)
        limit == InstancesLimit(c, instances)
        recmax == IF limit # NoInstant THEN normalizeForIndex(limit) ELSE Null
        resid == IF inserting THEN seq.resource + 1 ELSE mem[name].resid
        t1 == IF inserting
              THEN InsertCalendarObject(db, resid, name, componentText, resourceUID(c), organizer, recmax)
              ELSE DeleteTimeRange(
                       UpdateCalendarObject(db, resid, componentText, resourceUID(c), organizer, recmax),
                       resid)
        t2 == InsertInstances(t1, seq.instance, resid, c, instances)
        n == Cardinality(instances)
        t3 == IF isRecurringUnbounded(c) THEN InsertSentinel(t2, seq.instance + n, resid, c) ELSE t2
    IN  [ok |-> TRUE, err |-> "", expand |-> expand, db |-> t3,
         seq |-> [resource |-> IF inserting THEN resid ELSE seq.resource,
                  instance |-> seq.instance + n + (IF isRecurringUnbounded(c) THEN 1 ELSE 0)],
         mem |-> [mem EXCEPT ![name] = [resid |-> resid, text |-> componentText]]]

\* mutant: the record is written before the horizon is checked
updateDatabase_WriteFirst(name, c, expand_until, reCreate, inserting) ==
    LET expand == ExpandHorizon(c, expand_until, today)
    IN  IF HorizonExceeded(c, expand_until, today)
        THEN [WriteDatabase(name, c, expand, TRUE, inserting) EXCEPT
                 !.ok = FALSE, !.err = "IndexedSearchException"]
        ELSE IF ExpansionFails(c, reCreate, migrating)
        THEN Raised("InvalidOverriddenInstanceError", expand)
        ELSE WriteDatabase(name, c, expand, reCreate, inserting)

\* updateDatabase(component, expand_until, reCreate, inserting)
updateDatabase(name, c, expand_until, reCreate, inserting) ==
    LET expand == ExpandHorizon(c, expand_until, today)
    IN  IF HorizonExceeded(c, expand_until, today)
        THEN Raised("IndexedSearchException", expand)
        ELSE IF ExpansionFails(c, reCreate, migrating)
        THEN Raised("InvalidOverriddenInstanceError", expand)
        ELSE WriteDatabase(name, c, expand, reCreate, inserting)

\* mutant: the notification is sent before the database is updated
setComponent_NotifyFirst(name, c, inserting) ==
    LET r == updateDatabase(name, c, NoDate, FALSE, inserting)
    IN  [r |-> r,
         calls |-> IF r.ok
                   THEN <<"notifyChanged", IF inserting THEN "_insertRevision" ELSE "_updateRevision">>
                   ELSE <<"notifyChanged">>]

\* setComponent(component, inserting): updateDatabase, then the revision and the
\* notification of the collection
setComponent(name, c, inserting) ==
    LET r == updateDatabase(name, c, NoDate, FALSE, inserting)
    IN  [r |-> r,
         calls |-> IF r.ok
                   THEN <<IF inserting THEN "_insertRevision" ELSE "_updateRevision", "notifyChanged">>
                   ELSE <<>>]

----------------------------------------------------------------------------
(* updateDatabase statement by statement: the calls of self._txn.execSQL in *)
(* the order the code makes them.  A statement is [kind, arg].              *)

Statement(kind, arg) == [kind |-> kind, arg |-> arg]

RECURSIVE SortedInstances(_)
\* for key in instances: the instances in key order
SortedInstances(instances) ==
    IF instances = {} THEN <<>>
    ELSE LET i == CHOOSE i \in instances : \A j \in instances : i.rid <= j.rid
         IN  <<i>> \o SortedInstances(instances \ {i})

RECURSIVE PerUserStatements(_, _)
\* for useruid, transp in peruserdata: insert into TRANSPARENCY
PerUserStatements(instanceid, peruserdata) ==
    IF peruserdata = {} THEN <<>>
    ELSE LET p == CHOOSE p \in peruserdata : TRUE
         IN  <<Statement("insert TRANSPARENCY", TransparencyRow(instanceid, p.user, p.transp))>>
             \o PerUserStatements(instanceid, peruserdata \ {p})

\* mutant: the TRANSPARENCY rows of an instance are inserted before its TIME_RANGE row
InstanceStatements_TransparencyFirst(instanceid, resid, c, i) ==
    PerUserStatements(instanceid, perUserTransparency(c, i.rid))
    \o <<Statement("insert TIME_RANGE",
                   TimeRangeRow(instanceid, resid, i.start.tz = "none", i.start.wall, i.end.wall,
                                FBCode(i.fb), i.transp))>>

\* one turn of the loop over instances: insert into TIME_RANGE ... returning
\* INSTANCE_ID, then the inserts into TRANSPARENCY with that id
InstanceStatements(instanceid, resid, c, i) ==
    <<Statement("insert TIME_RANGE",
                TimeRangeRow(instanceid, resid, i.start.tz = "none", i.start.wall, i.end.wall,
                             FBCode(i.fb), i.transp))>>
    \o PerUserStatements(instanceid, perUserTransparency(c, i.rid))

RECURSIVE LoopStatements(_, _, _, _)
LoopStatements(base, resid, c, sorted) ==
    IF sorted = <<>> THEN <<>>
    ELSE InstanceStatements(base + 1, resid, c, Head(sorted))
         \o LoopStatements(base + 1, resid, c, Tail(sorted))

\* the row for "infinity" and its TRANSPARENCY rows
SentinelStatements(instanceid, resid, c) ==
    <<Statement("insert TIME_RANGE",
                TimeRangeRow(instanceid, resid, FALSE, FarFuture, FarFutureEnd,
                             icalfbtype_to_indexfbtype("UNKNOWN"), TRUE))>>
    \o PerUserStatements(instanceid, perUserTransparency(c, Null))

\* the statements of one upsert, in order
Statements(name, c, expand, reCreate, inserting) ==
    LET instances == Instances(c, expand, reCreate)
        limit == InstancesLimit(c, instances)
        recmax == IF limit # NoInstant THEN normalizeForIndex(limit) ELSE Null
        resid == IF inserting THEN seq.resource + 1 ELSE mem[name].resid
        record == [id |-> resid, name |-> name, text |-> ComponentText(c), uid |-> resourceUID(c),
                   organizer |-> getOrganizer(c), recurrance_max |-> recmax]
    IN  (IF inserting
         THEN <<Statement("insert CALENDAR_OBJECT", record)>>
         ELSE <<Statement("update CALENDAR_OBJECT", record),
                Statement("delete TIME_RANGE", record)>>)
        \o LoopStatements(seq.instance, resid, c, SortedInstances(instances))
        \o (IF isRecurringUnbounded(c)
            THEN SentinelStatements(seq.instance + Cardinality(instances) + 1, resid, c)
            ELSE <<>>)

\* self._txn.execSQL(statement)
ExecSQL(tabs, st) ==
    CASE st.kind = "insert CALENDAR_OBJECT" ->
             InsertCalendarObject(tabs, st.arg.id, st.arg.name, st.arg.text, st.arg.uid,
                                  st.arg.organizer, st.arg.recurrance_max)
      [] st.kind = "update CALENDAR_OBJECT" ->
             UpdateCalendarObject(tabs, st.arg.id, st.arg.text, st.arg.uid, st.arg.organizer,
                                  st.arg.recurrance_max)
      [] st.kind = "delete TIME_RANGE" -> DeleteTimeRange(tabs, st.arg.id)
      [] st.kind = "insert TIME_RANGE" -> [tabs EXCEPT !.tr = @ \cup {st.arg}]
      [] st.kind = "insert TRANSPARENCY" -> [tabs EXCEPT !.tp = @ \cup {st.arg}]

\* where the statements of a kind stand in the list
Position(stmts, kind) == {k \in 1..Len(stmts) : stmts[k].kind = kind}

RECURSIVE Run(_, _)
\* the tables after the statements have run, first to last
Run(tabs, stmts) == IF stmts = <<>> THEN tabs ELSE Run(ExecSQL(tabs, Head(stmts)), Tail(stmts))

----------------------------------------------------------------------------
(* The history variable last: the operation that produced the state, the   *)
(* arguments it was called with, and how it ended.                         *)

Last(op, name, c, inserting, until, reCreate, ok, err, expand, calls, att, pending) ==
    [op |-> op, name |-> name, comp |-> c, inserting |-> inserting, until |-> until,
     reCreate |-> reCreate, ok |-> ok, err |-> err, expand |-> expand, calls |-> calls,
     att |-> att, pending |-> pending]

\* an operation of the transaction or of the clock
LastPlain(op, pending) ==
    Last(op, "", NoComp, FALSE, NoDate, FALSE, TRUE, "", Null, <<>>, "", pending)

\* the history of the horizon: the row of the object replaced by the new one
WithHorizon(tabs, resid, expand, until) ==
    [tabs EXCEPT !.hz = {h \in @ : h.obj # resid}
                        \cup {[obj |-> resid, expand |-> expand, until |-> until]}]

\* the CalendarObject instances a new transaction starts with
FreshObjects(tabs) == [n \in Names |-> [resid |-> ResourceIdOf(tabs, n), text |-> NoText]]

----------------------------------------------------------------------------
(* The initial state: empty tables, an empty attachment directory *)

\* no transaction besides the ambient one
NoRace == [w |-> <<>>, order |-> <<>>]

AttNames == {"doc", "img"}
UIDs == {c.uid : c \in Components}
Paths == UIDs \X AttNames
NoFile == [exists |-> FALSE, content |-> <<>>]

Init ==
    /\ today = Day0
    /\ migrating \in BOOLEAN
    /\ db = EmptyTables
    /\ committed = EmptyTables
    /\ seq = [resource |-> 0, instance |-> 0]
    /\ mem = FreshObjects(EmptyTables)
    /\ files = [p \in Paths |-> NoFile]
    /\ sinks = {}
    /\ postCommit = <<>>
    /\ closed = {}
    /\ noRow = {}
    /\ race = NoRace
    /\ count = [upserts |-> 0, sinks |-> 0, removes |-> 0, buf |-> MaxBuf]
    /\ last = LastPlain("init", <<>>)

----------------------------------------------------------------------------
(* The upsert operations *)

\* what an upsert may be called with: the object is new on insert (the name is
\* unique in its calendar) and exists on update
CanUpsert(name, c, inserting) ==
    /\ IF inserting
       THEN mem[name].resid = Null /\ ObjectRows(db, name) = {}
       ELSE mem[name].resid # Null
    /\ count.upserts < MaxUpserts

\* the caller's override horizons: none, the maximum window, one day more
Overrides_expand_until == {NoDate, today + maximum_future_expansion_duration,
                           today + maximum_future_expansion_duration + 1}

\* calendarObject.setComponent(component, inserting)
SetComponent(name, c, inserting) ==
    /\ CanUpsert(name, c, inserting)
    /\ \E s \in {setComponent(name, c, inserting)} :
          /\ db' = IF s.r.ok THEN WithHorizon(s.r.db, s.r.mem[name].resid, s.r.expand, NoDate) ELSE s.r.db
          /\ seq' = s.r.seq
          /\ count' = [count EXCEPT !.upserts = IF s.r.ok THEN @ + 1 ELSE @]
          /\ mem' = s.r.mem
          /\ last' = Last("setComponent", name, c, inserting, NoDate, FALSE, s.r.ok, s.r.err,
                          s.r.expand, s.calls, "", <<>>)
    /\ UNCHANGED <<today, migrating, committed, files, sinks, postCommit, closed, noRow, race>>

\* calendarObject.updateDatabase(component, expand_until, reCreate) called directly
\* on a stored object (the index re-expanding a resource)
UpdateDatabase(name, c, expand_until, reCreate) ==
    /\ CanUpsert(name, c, FALSE)
    /\ \E r \in {updateDatabase(name, c, expand_until, reCreate, FALSE)} :
          /\ db' = IF r.ok THEN WithHorizon(r.db, r.mem[name].resid, r.expand, expand_until) ELSE r.db
          /\ seq' = r.seq
          /\ count' = [count EXCEPT !.upserts = IF r.ok THEN @ + 1 ELSE @]
          /\ mem' = r.mem
          /\ last' = Last("updateDatabase", name, c, FALSE, expand_until, reCreate, r.ok,
                          r.err, r.expand, <<>>, "", <<>>)
    /\ UNCHANGED <<today, migrating, committed, files, sinks, postCommit, closed, noRow, race>>

----------------------------------------------------------------------------
(* The ambient transaction and the clock *)

\* attachment._path.remove, run after the commit
RunPostCommit(fs, callbacks) ==
    [p \in Paths |-> IF \E k \in 1..Len(callbacks) : callbacks[k] = p THEN NoFile ELSE fs[p]]

\* FilePath.remove raises OSError when there is no file: callback k finds none when
\* the file was never written or an earlier callback removed it
RemoveRaises(fs, callbacks, k) ==
    \/ ~fs[callbacks[k]].exists
    \/ \E j \in 1..(k - 1) : callbacks[j] = callbacks[k]

\* the transaction commits: its statements become durable, then the post-commit
\* callbacks run; a new transaction starts
Commit ==
    /\ committed' = db
    /\ files' = RunPostCommit(files, postCommit)
    /\ postCommit' = <<>>
    /\ sinks' = {}
    /\ mem' = FreshObjects(db)
    /\ noRow' = {}
    /\ last' = [LastPlain("commit", postCommit) EXCEPT
                    !.err = IF \E k \in 1..Len(postCommit) : RemoveRaises(files, postCommit, k)
                            THEN "OSError" ELSE ""]
    /\ UNCHANGED <<today, migrating, db, seq, closed, count, race>>

\* the transaction aborts: its statements are rolled back, its post-commit
\* callbacks are dropped; a new transaction starts
Abort ==
    /\ db' = committed
    /\ postCommit' = <<>>
    /\ sinks' = {}
    /\ mem' = FreshObjects(committed)
    /\ noRow' = {}
    /\ last' = LastPlain("abort", postCommit)
    /\ UNCHANGED <<today, migrating, committed, seq, files, closed, count, race>>

\* midnight passes
Tick ==
    /\ today < Day0 + MaxTicks
    /\ today' = today + 1
    /\ last' = LastPlain("tick", <<>>)
    /\ UNCHANGED <<migrating, db, committed, seq, mem, files, sinks, postCommit, closed, noRow, count, race>>

\* reCreate is passed on to the expansion only, where it decides whether invalid
\* instances are ignored
ReCreate(c) == IF c.invalid = {} THEN {FALSE} ELSE BOOLEAN

\* the objects the upserts of Spec work on
IndexedNames == {"a.ics"}

----------------------------------------------------------------------------
(* The attachment store *)

Bytes == {1, 2}
Chunks == {<<b>> : b \in Bytes}

\* the declared content types, as MimeType(mediaType, mediaSubtype)
MimeTypes == {<<"text", "plain">>}

\* generateContentType(contentType)
generateContentType(ct) == ct[1] \o "/" \o ct[2]

\* hashlib.md5(), hash.update(data), hash.hexdigest(): the digest is modelled
\* without collisions, by the bytes it was fed
md5 == <<>>
update(h, data) == h \o data
hexdigest(h) == <<h>>

\* the MD5 column of a row inserted by createAttachmentWithName: ""
EmptyMD5 == <<>>

\* CalendarObject.text(): the cached text, else the stored one
text(name) ==
    IF mem[name].text # NoText THEN mem[name].text
    ELSE (CHOOSE o \in db.obj : o.id = mem[name].resid).text

\* CalendarObject.uid(): the UID of the parsed text
uid(name) == (CHOOSE c \in Components : ComponentText(c) = text(name)).uid

\* Attachment._path: attachmentRoot/ho/me/home/<uid>/<name>, for the one home of
\* the model
AttachmentPath(name, att) == <<uid(name), att>>

AttachmentRow(resid, ctype, size, digest, path) ==
    [obj |-> resid, ctype |-> ctype, size |-> size, md5 |-> digest, path |-> path]

\* ATTACHMENT.PATH is unique: the insert of a second row with the path fails
PathTaken(tabs, att) == \E a \in tabs.att : a.path = att

\* mutant: the metadata row is written when the sink is closed, not before
InsertAttachment_Deferred(tabs, resid, contentType, att) == tabs

\* insert into ATTACHMENT (CALENDAR_OBJECT_RESOURCE_ID, CONTENT_TYPE, SIZE, MD5, PATH)
InsertAttachment(tabs, resid, contentType, att) ==
    [tabs EXCEPT !.att = @ \cup {AttachmentRow(resid, generateContentType(contentType), 0,
                                               EmptyMD5, att)}]

\* update ATTACHMENT set CONTENT_TYPE, SIZE, MD5, MODIFIED where PATH = %s
UpdateAttachment(tabs, contentTypeString, size, digest, att) ==
    [tabs EXCEPT !.att = {IF a.path = att
                          THEN [a EXCEPT !.ctype = contentTypeString, !.size = size, !.md5 = digest]
                          ELSE a : a \in @}]

\* the object has an ATTACHMENT row of that name
HasAttachment(tabs, resid, att) == \E a \in tabs.att : a.obj = resid /\ a.path = att

\* delete from ATTACHMENT where CALENDAR_OBJECT_RESOURCE_ID = %s AND PATH = %s
DeleteAttachment(tabs, resid, att) ==
    [tabs EXCEPT !.att = {a \in @ : ~(a.obj = resid /\ a.path = att)}]

\* Attachment._populate: the rows selected by PATH; attachmentWithName returns
\* None when there is none
NotFound == [found |-> FALSE, ctype |-> "", size |-> 0, md5 |-> EmptyMD5]
attachmentWithName(name, att) ==
    IF \E a \in db.att : a.path = att
    THEN LET a == CHOOSE a \in db.att : a.path = att
         IN  [found |-> TRUE, ctype |-> a.ctype, size |-> a.size, md5 |-> a.md5]
    ELSE NotFound

\* AttachmentStorageTransport(attachment, contentType); id tells the sinks apart,
\* chunks is the history of the data given to write()
Transport(id, name, att, contentType) ==
    [id |-> id, obj |-> name, att |-> att, contentType |-> contentType, buf |-> <<>>, hash |-> md5,
     chunks |-> <<>>]

LastAttachment(op, name, att, ok, err) ==
    Last(op, name, NoComp, FALSE, NoDate, FALSE, ok, err, Null, <<>>, att, <<>>)

\* calendarObject.createAttachmentWithName(name, contentType): the row is inserted
\* and the write sink is returned, unless the insert fails
CreateAttachmentWithName(name, att, contentType) ==
    /\ mem[name].resid # Null
    /\ count.sinks < MaxSinks
    /\ IF PathTaken(db, att)
       THEN /\ last' = LastAttachment("createAttachmentWithName", name, att, FALSE, "IntegrityError")
            /\ UNCHANGED <<db, sinks, count, race>>
       ELSE /\ db' = InsertAttachment(db, mem[name].resid, contentType, att)
            /\ sinks' = sinks \cup {Transport(count.sinks + 1, name, att, contentType)}
            /\ count' = [count EXCEPT !.sinks = @ + 1]
            /\ last' = LastAttachment("createAttachmentWithName", name, att, TRUE, "")
    /\ UNCHANGED <<today, migrating, committed, seq, mem, files, postCommit, closed, noRow, race>>

\* mutant: the buffer holds the last chunk only
Write_LastChunk(t, data) ==
    /\ Len(t.buf) + Len(data) <= count.buf
    /\ sinks' = (sinks \ {t}) \cup {[t EXCEPT !.buf = data, !.hash = update(@, data),
                                               !.chunks = Append(@, data)]}
    /\ last' = LastAttachment("write", t.obj, t.att, TRUE, "")
    /\ UNCHANGED <<today, migrating, db, committed, seq, mem, files, postCommit, closed, noRow, count, race>>

\* transport.write(data)
Write(t, data) ==
    /\ Len(t.buf) + Len(data) <= count.buf
    /\ sinks' = (sinks \ {t}) \cup {[t EXCEPT !.buf = @ \o data, !.hash = update(@, data),
                                               !.chunks = Append(@, data)]}
    /\ last' = LastAttachment("write", t.obj, t.att, TRUE, "")
    /\ UNCHANGED <<today, migrating, db, committed, seq, mem, files, postCommit, closed, noRow, count, race>>

\* transport.loseConnection(): the bytes go to the file, then the row is updated;
\* the sink is used no more
LoseConnection(t) ==
    /\ files' = [files EXCEPT ![AttachmentPath(t.obj, t.att)] =
                                  [exists |-> TRUE, content |-> t.buf]]
    /\ db' = UpdateAttachment(db, generateContentType(t.contentType), Len(t.buf),
                              hexdigest(t.hash), t.att)
    /\ sinks' = sinks \ {t}
    /\ closed' = closed \cup {t.att}
    /\ last' = LastAttachment("loseConnection", t.obj, t.att, TRUE, "")
    /\ UNCHANGED <<today, migrating, committed, seq, mem, postCommit, noRow, count, race>>

\* attachment.retrieve(protocol): the bytes delivered to the protocol
retrieve(name, att) == files[AttachmentPath(name, att)].content

\* mutant: the file is removed at once instead of after the commit
removeAttachmentWithName_RemovesNow(name, att) ==
    [postCommit |-> postCommit,
     files |-> [files EXCEPT ![AttachmentPath(name, att)] = NoFile],
     db |-> DeleteAttachment(db, mem[name].resid, att)]

\* removeAttachmentWithName(name): the removal of the file is registered as a
\* post-commit callback, then the row is deleted
removeAttachmentWithName(name, att) ==
    [postCommit |-> Append(postCommit, AttachmentPath(name, att)),
     files |-> files,
     db |-> DeleteAttachment(db, mem[name].resid, att)]

\* calendarObject.removeAttachmentWithName(name)
RemoveAttachmentWithName(name, att) ==
    /\ mem[name].resid # Null
    /\ count.removes < MaxRemoves
    /\ count' = [count EXCEPT !.removes = @ + 1]
    /\ \E r \in {removeAttachmentWithName(name, att)} :
          /\ postCommit' = r.postCommit
          /\ files' = r.files
          /\ db' = r.db
    /\ noRow' = IF HasAttachment(db, mem[name].resid, att) THEN noRow
                 ELSE noRow \cup {AttachmentPath(name, att)}
    /\ last' = LastAttachment("removeAttachmentWithName", name, att, TRUE, "")
    /\ UNCHANGED <<today, migrating, committed, seq, mem, sinks, closed, race>>

Next ==
    \/ \E n \in IndexedNames, c \in Components, ins \in BOOLEAN : SetComponent(n, c, ins)
    \/ \E n \in IndexedNames, c \in Components, u \in Overrides_expand_until :
          \E rc \in ReCreate(c) : UpdateDatabase(n, c, u, rc)
    \/ Commit
    \/ Abort
    \/ Tick

Spec == Init /\ [][Next]_vars

----------------------------------------------------------------------------
(* The attachment store on its own: two stored objects, no upsert *)

StoredTables ==
    LET a == InsertInstances(
                 InsertCalendarObject(EmptyTables, 1, "a.ics", ComponentText(Single),
                                      resourceUID(Single), getOrganizer(Single),
                                      normalizeForIndex(InstancesLimit(Single, Single.occ))),
                 0, 1, Single, Single.occ)
        b == InsertInstances(
                 InsertCalendarObject(a, 2, "b.ics", ComponentText(Bounded2),
                                      resourceUID(Bounded2), getOrganizer(Bounded2),
                                      normalizeForIndex(InstancesLimit(Bounded2, Bounded2.occ))),
                 1, 2, Bounded2, Bounded2.occ)
    IN  WithHorizon(WithHorizon(b, 1, FarFuture, NoDate), 2,
                    Midnight(Day0 + default_future_expansion_duration), NoDate)

InitAttach ==
    /\ today = Day0
    /\ migrating = FALSE
    /\ db = StoredTables
    /\ committed = StoredTables
    /\ seq = [resource |-> 2, instance |-> 3]
    /\ mem = FreshObjects(StoredTables)
    /\ files = [p \in Paths |-> NoFile]
    /\ sinks = {}
    /\ postCommit = <<>>
    /\ closed = {}
    /\ noRow = {}
    /\ race = NoRace
    /\ count = [upserts |-> 2, sinks |-> 0, removes |-> 0, buf |-> MaxBuf]
    /\ last = LastPlain("init", <<>>)

\* the objects the attachment operations of SpecAttach work on
AttachingNames == {"a.ics"}

NextAttach ==
    \/ \E n \in AttachingNames, a \in AttNames, ct \in MimeTypes : CreateAttachmentWithName(n, a, ct)
    \/ \E t \in sinks, d \in Chunks : Write(t, d)
    \/ \E t \in sinks : LoseConnection(t)
    \/ \E n \in AttachingNames, a \in AttNames : RemoveAttachmentWithName(n, a)
    \/ Commit
    \/ Abort

SpecAttach == InitAttach /\ [][NextAttach]_vars

----------------------------------------------------------------------------
(* One transfer at a time, in chunks of one or two bytes *)

TransferChunks == Chunks \cup {<<1, 2>>}

InitTransfer ==
    /\ today = Day0
    /\ migrating = FALSE
    /\ db = StoredTables
    /\ committed = StoredTables
    /\ seq = [resource |-> 2, instance |-> 3]
    /\ mem = FreshObjects(StoredTables)
    /\ files = [p \in Paths |-> NoFile]
    /\ sinks = {}
    /\ postCommit = <<>>
    /\ closed = {}
    /\ noRow = {}
    /\ race = NoRace
    /\ count = [upserts |-> 2, sinks |-> MaxSinks - 1, removes |-> MaxRemoves, buf |-> MaxTransfer]
    /\ last = LastPlain("init", <<>>)

NextTransfer ==
    \/ \E n \in AttachingNames, a \in AttNames, ct \in MimeTypes : CreateAttachmentWithName(n, a, ct)
    \/ \E t \in sinks, d \in TransferChunks : Write(t, d)
    \/ \E t \in sinks : LoseConnection(t)
    \/ Commit
    \/ Abort

SpecTransfer == InitTransfer /\ [][NextTransfer]_vars

----------------------------------------------------------------------------
(* Two transactions write the attachment "doc" of a.ics, which was created    *)
(* by a transaction that committed without closing its sink.  Each obtains  *)
(* its sink from attachmentWithName(name).store(contentType), writes,       *)
(* closes, and commits or rolls back.                                       *)

Writers == {1, 2}
RaceName == "a.ics"
RaceAtt == "doc"

\* the tables with the row createAttachmentWithName left
RaceTables == InsertAttachment(StoredTables, ResourceIdOf(StoredTables, RaceName),
                               <<"text", "plain">>, RaceAtt)

NoSink == Transport(0, "", "", <<"", "">>)

InitRace ==
    /\ today = Day0
    /\ migrating = FALSE
    /\ db = RaceTables
    /\ committed = RaceTables
    /\ seq = [resource |-> 2, instance |-> 3]
    /\ mem = FreshObjects(RaceTables)
    /\ files = [p \in Paths |-> NoFile]
    /\ sinks = {}
    /\ postCommit = <<>>
    /\ closed = {}
    /\ noRow = {}
    /\ race = [w |-> [i \in Writers |-> [pc |-> "idle", sink |-> NoSink]], order |-> <<>>]
    /\ count = [upserts |-> 2, sinks |-> MaxSinks, removes |-> MaxRemoves, buf |-> MaxBuf]
    /\ last = LastPlain("init", <<>>)

\* attachment.store(contentType) on the attachment attachmentWithName returned
Store(w, contentType) ==
    /\ race.w[w].pc = "idle"
    /\ attachmentWithName(RaceName, RaceAtt).found
    /\ race' = [race EXCEPT !.w[w] = [pc |-> "open",
                                      sink |-> Transport(w, RaceName, RaceAtt, contentType)]]
    /\ last' = LastAttachment("store", RaceName, RaceAtt, TRUE, "")
    /\ UNCHANGED <<today, migrating, db, committed, seq, mem, files, sinks, postCommit, closed,
                   noRow, count>>

\* transport.write(data) in transaction w
WriteIn(w, data) ==
    /\ race.w[w].pc = "open"
    /\ Len(race.w[w].sink.buf) + Len(data) <= count.buf
    /\ race' = [race EXCEPT !.w[w].sink = [@ EXCEPT !.buf = @ \o data, !.hash = update(@, data),
                                                    !.chunks = Append(@, data)]]
    /\ last' = LastAttachment("write", RaceName, RaceAtt, TRUE, "")
    /\ UNCHANGED <<today, migrating, db, committed, seq, mem, files, sinks, postCommit, closed,
                   noRow, count>>

\* the update of the row waits while another transaction holds an uncommitted
\* update of it
RowLocked(w) == \E v \in Writers \ {w} : race.w[v].pc = "closed"

\* transport.loseConnection() in transaction w: the bytes go to the file, then the
\* update statement runs, or waits for the transaction that holds the row
LoseConnectionIn(w) ==
    /\ race.w[w].pc = "open"
    /\ files' = [files EXCEPT ![AttachmentPath(RaceName, RaceAtt)] =
                                  [exists |-> TRUE, content |-> race.w[w].sink.buf]]
    /\ race' = IF RowLocked(w)
               THEN [race EXCEPT !.w[w].pc = "waiting"]
               ELSE [race EXCEPT !.w[w].pc = "closed", !.order = Append(@, w)]
    /\ last' = LastAttachment("loseConnection", RaceName, RaceAtt, TRUE, "")
    /\ UNCHANGED <<today, migrating, db, committed, seq, mem, sinks, postCommit, closed,
                   noRow, count>>

\* the update statement of a waiting loseConnection completes
Resume(w) ==
    /\ race.w[w].pc = "waiting"
    /\ ~RowLocked(w)
    /\ race' = [race EXCEPT !.w[w].pc = "closed", !.order = Append(@, w)]
    /\ last' = LastAttachment("loseConnection", RaceName, RaceAtt, TRUE, "")
    /\ UNCHANGED <<today, migrating, db, committed, seq, mem, files, sinks, postCommit, closed,
                   noRow, count>>

\* transaction w commits: its update of the row becomes durable
CommitIn(w) ==
    /\ race.w[w].pc = "closed"
    /\ committed' = UpdateAttachment(committed, generateContentType(race.w[w].sink.contentType),
                                     Len(race.w[w].sink.buf), hexdigest(race.w[w].sink.hash),
                                     RaceAtt)
    /\ db' = committed'
    /\ race' = [race EXCEPT !.w[w].pc = "committed"]
    /\ last' = LastPlain("commit", <<>>)
    /\ UNCHANGED <<today, migrating, seq, mem, files, sinks, postCommit, closed, noRow, count>>

\* transaction w is rolled back: its update of the row is dropped
RollbackIn(w) ==
    /\ race.w[w].pc \in {"open", "waiting", "closed"}
    /\ race' = [race EXCEPT !.w[w].pc = "rolledback"]
    /\ last' = LastPlain("abort", <<>>)
    /\ UNCHANGED <<today, migrating, db, committed, seq, mem, files, sinks, postCommit, closed,
                   noRow, count>>

NextRace ==
    \/ \E w \in Writers, ct \in MimeTypes : Store(w, ct)
    \/ \E w \in Writers, d \in Chunks : WriteIn(w, d)
    \/ \E w \in Writers : LoseConnectionIn(w)
    \/ \E w \in Writers : Resume(w)
    \/ \E w \in Writers : CommitIn(w)
    \/ \E w \in Writers : RollbackIn(w)

SpecRace == InitRace /\ [][NextRace]_vars

----------------------------------------------------------------------------
(* Upserts of a.ics beside a stored object: b.ics holds the unbounded series, *)
(* indexed on Day0, and an attachment "doc" that was written and closed.      *)

FrameTables ==
    LET instances == expandTimeRanges(Unbounded, Midnight(Day0 + default_future_expansion_duration),
                                      FALSE)
        n == Cardinality(instances)
        o == InsertCalendarObject(EmptyTables, 1, "b.ics", ComponentText(Unbounded),
                                  resourceUID(Unbounded), getOrganizer(Unbounded), Null)
        t == InsertSentinel(InsertInstances(o, 0, 1, Unbounded, instances), n, 1, Unbounded)
        a == UpdateAttachment(InsertAttachment(t, 1, <<"text", "plain">>, "doc"),
                              generateContentType(<<"text", "plain">>), 1,
                              hexdigest(update(md5, <<1>>)), "doc")
    IN  WithHorizon(a, 1, Midnight(Day0 + default_future_expansion_duration), NoDate)

InitFrame ==
    /\ today = Day0
    /\ migrating \in BOOLEAN
    /\ db = FrameTables
    /\ committed = FrameTables
    /\ seq = [resource |-> 1, instance |-> Cardinality(FrameTables.tr)]
    /\ mem = FreshObjects(FrameTables)
    /\ files = [p \in Paths |-> IF p = <<resourceUID(Unbounded), "doc">>
                                THEN [exists |-> TRUE, content |-> <<1>>] ELSE NoFile]
    /\ sinks = {}
    /\ postCommit = <<>>
    /\ closed = {"doc"}
    /\ noRow = {}
    /\ race = NoRace
    /\ count = [upserts |-> 0, sinks |-> MaxSinks, removes |-> MaxRemoves, buf |-> MaxBuf]
    /\ last = LastPlain("init", <<>>)

NextFrame ==
    \/ \E n \in IndexedNames, c \in Components, ins \in BOOLEAN : SetComponent(n, c, ins)
    \/ \E n \in IndexedNames, c \in Components, u \in Overrides_expand_until :
          \E rc \in ReCreate(c) : UpdateDatabase(n, c, u, rc)
    \/ Commit
    \/ Abort
    \/ Tick

SpecFrame == InitFrame /\ [][NextFrame]_vars

----------------------------------------------------------------------------
(* Two stored objects and their attachments, in one transaction at a time:   *)
(* either object creates attachments, looks them up by name and writes to   *)
(* the attachment the lookup returned.                                      *)

\* CalendarObject.attachments(): the names of the rows of the object
attachments(name) == {a.path : a \in {r \in db.att : r.obj = mem[name].resid}}

\* the attachment name both objects use
SharedAtts == {"doc"}

\* the content types a sink is opened with
StoreTypes == MimeTypes \cup {<<"image", "png">>}

\* calendarObject.attachmentWithName(name).store(contentType)
StoreOn(name, att, contentType) ==
    /\ mem[name].resid # Null
    /\ count.sinks < MaxSinks
    /\ attachmentWithName(name, att).found
    /\ sinks' = sinks \cup {Transport(count.sinks + 1, name, att, contentType)}
    /\ count' = [count EXCEPT !.sinks = @ + 1]
    /\ last' = LastAttachment("store", name, att, TRUE, "")
    /\ UNCHANGED <<today, migrating, db, committed, seq, mem, files, postCommit, closed, noRow,
                   race>>

InitShare ==
    /\ today = Day0
    /\ migrating = FALSE
    /\ db = StoredTables
    /\ committed = StoredTables
    /\ seq = [resource |-> 2, instance |-> 3]
    /\ mem = FreshObjects(StoredTables)
    /\ files = [p \in Paths |-> NoFile]
    /\ sinks = {}
    /\ postCommit = <<>>
    /\ closed = {}
    /\ noRow = {}
    /\ race = NoRace
    /\ count = [upserts |-> 2, sinks |-> 0, removes |-> MaxRemoves, buf |-> MaxBuf]
    /\ last = LastPlain("init", <<>>)

NextShare ==
    \/ \E n \in Names, a \in SharedAtts, ct \in MimeTypes : CreateAttachmentWithName(n, a, ct)
    \/ \E n \in Names, a \in SharedAtts, ct \in StoreTypes : StoreOn(n, a, ct)
    \/ \E t \in sinks, d \in Chunks : Write(t, d)
    \/ \E t \in sinks : LoseConnection(t)
    \/ Commit
    \/ Abort

SpecShare == InitShare /\ [][NextShare]_vars

----------------------------------------------------------------------------
(* Upserts of which a statement may fail: self._txn.execSQL raises at the    *)
(* k-th statement of updateDatabase, after the statements before it ran.    *)

\* the statements that ran before the one that failed
Executed(stmts, k) == SubSeq(stmts, 1, k - 1)

\* updateDatabase(component, expand_until, reCreate, inserting) whose k-th statement
\* raises: self._objectText was set before the first statement, self._resourceID
\* is set when the insert of the record has returned, and the sequences keep what
\* the inserts took.  The call counts as one of the upserts.
StatementFails(name, c, expand_until, reCreate, inserting, k) ==
    /\ CanUpsert(name, c, inserting)
    /\ ~HorizonExceeded(c, expand_until, today)
    /\ ~ExpansionFails(c, reCreate, migrating)
    /\ LET expand == ExpandHorizon(c, expand_until, today)
           stmts == Statements(name, c, expand, reCreate, inserting)
           ran == Executed(stmts, k)
       IN  /\ k \in 1..Len(stmts)
           /\ db' = Run(db, ran)
           /\ seq' = [resource |-> seq.resource
                                      + Cardinality(Position(ran, "insert CALENDAR_OBJECT")),
                      instance |-> seq.instance
                                      + Cardinality(Position(ran, "insert TIME_RANGE"))]
           /\ mem' = [mem EXCEPT ![name] =
                          [resid |-> IF Position(ran, "insert CALENDAR_OBJECT") # {}
                                     THEN seq.resource + 1 ELSE @.resid,
                           text |-> ComponentText(c)]]
           /\ last' = Last("updateDatabase", name, c, inserting, expand_until, reCreate, FALSE,
                           "DatabaseError", expand, <<>>, "", <<>>)
    /\ count' = [count EXCEPT !.upserts = @ + 1]
    /\ UNCHANGED <<today, migrating, committed, files, sinks, postCommit, closed, noRow, race>>

\* the statements that may fail: the first, the second, the fourth
FailingStatements == {1, 2, 4}

NextText ==
    \/ \E n \in IndexedNames, c \in Components, ins \in BOOLEAN : SetComponent(n, c, ins)
    \/ \E n \in IndexedNames, c \in Components, u \in Overrides_expand_until :
          \E rc \in ReCreate(c) : UpdateDatabase(n, c, u, rc)
    \/ \E n \in IndexedNames, c \in Components, ins \in BOOLEAN, k \in FailingStatements :
          StatementFails(n, c, NoDate, FALSE, ins, k)
    \/ Commit
    \/ Abort

SpecText == Init /\ [][NextText]_vars

----------------------------------------------------------------------------
(* Properties of the upsert (checked under Spec) *)

UpsertOps == {"setComponent", "updateDatabase"}

\* a TIME_RANGE row without its identifiers
RowValue(r) ==
    [floating |-> r.floating, start |-> r.start, end |-> r.end, fbtype |-> r.fbtype,
     transparent |-> r.transparent]

\* the row for "infinity", without its identifiers
SentinelValue ==
    [floating |-> FALSE, start |-> FarFuture, end |-> FarFutureEnd, fbtype |-> 0,
     transparent |-> TRUE]

\* the occurrences of c before the horizon, the invalid ones left out
OccurrencesBefore(c, horizon) == {i \in c.occ : i.rid \notin c.invalid /\ i.start.wall < horizon}

\* the index rows the expansion of c up to the horizon calls for
ExpectedValues(c, horizon) ==
    {[floating |-> i.start.tz = "none", start |-> i.start.wall, end |-> i.end.wall,
      fbtype |-> FBCode(i.fb), transparent |-> i.transp] : i \in OccurrencesBefore(c, horizon)}
    \cup (IF c.unbounded THEN {SentinelValue} ELSE {})

ExpectedCount(c, horizon) ==
    Cardinality(OccurrencesBefore(c, horizon)) + (IF c.unbounded THEN 1 ELSE 0)

\* C1: after a successful update of an existing object its TIME_RANGE rows are
\* exactly the rows of the new component's expansion (and the sentinel when it is
\* unbounded); no row that existed before the update survives, nor its identifier.
C1_UpdateRebuildsIndex ==
    [][(last'.op \in UpsertOps /\ last'.ok /\ ~last'.inserting) =>
          LET o == mem'[last'.name].resid
              new == TimeRangeOf(db', o)
          IN  /\ o = mem[last'.name].resid
              /\ TimeRangeOf(db, o) \cap db'.tr = {}
              /\ {r.id : r \in db'.tr} \cap {r.id : r \in TimeRangeOf(db, o)} = {}
              /\ {t.inst : t \in db'.tp} \cap {r.id : r \in TimeRangeOf(db, o)} = {}
              /\ {RowValue(r) : r \in new} = ExpectedValues(last'.comp, last'.expand)
              /\ Cardinality(new) = ExpectedCount(last'.comp, last'.expand)]_vars

\* the three-occurrence event was updated to the two-occurrence one: two rows,
\* with new identifiers
C1_Witness ==
    /\ last.op = "setComponent" /\ last.ok /\ ~last.inserting /\ last.comp = Bounded2
    /\ \E o \in committed.obj : o.text = ComponentText(Bounded3)
                                /\ Cardinality(TimeRangeOf(committed, o.id)) = 3
    /\ Cardinality(TimeRangeOf(db, mem[last.name].resid)) = 2
    /\ \A r \in db.tr : r.id > 3

SentinelRows(tabs, resid) == {r \in TimeRangeOf(tabs, resid) : r.start = FarFuture}

\* C2: every successful upsert of an unboundedly recurring component leaves exactly
\* one sentinel row for the object, besides the rows of the expanded instances; the
\* sentinel is non-floating, UNKNOWN (0) and transparent.  Every other component
\* leaves none.
C2_OneSentinel ==
    (last.op \in UpsertOps /\ last.ok) =>
        LET o == mem[last.name].resid
            sentinels == SentinelRows(db, o)
        IN  /\ Cardinality(sentinels) = (IF last.comp.unbounded THEN 1 ELSE 0)
            /\ \A r \in sentinels : RowValue(r) = SentinelValue
            /\ Cardinality(TimeRangeOf(db, o) \ sentinels)
                   = Cardinality(OccurrencesBefore(last.comp, last.expand))

\* an unbounded series stored over a committed unbounded series: one sentinel
C2_Witness ==
    /\ last.op \in UpsertOps /\ last.ok /\ ~last.inserting /\ last.comp.unbounded
    /\ SentinelRows(committed, mem[last.name].resid) # {}
    /\ Cardinality(SentinelRows(db, mem[last.name].resid)) = 1
    /\ Cardinality(TimeRangeOf(db, mem[last.name].resid)) > 1

UpsertErrors == {"IndexedSearchException", "InvalidOverriddenInstanceError"}

\* C3: an upsert that fails with the horizon error or with the unrecovered
\* invalid-instance error leaves the tables as they were, and neither the revision
\* nor the notification is invoked.
C3_FailedUpsertChangesNothing ==
    [][(last'.op \in UpsertOps /\ ~last'.ok) =>
          /\ last'.err \in UpsertErrors
          /\ db' = db
          /\ committed' = committed
          /\ seq' = seq
          /\ last'.calls = <<>>]_vars

\* a stored object whose update failed on an invalid overridden instance
C3_Witness ==
    /\ last.op = "setComponent" /\ ~last.ok /\ last.err = "InvalidOverriddenInstanceError"
    /\ TimeRangeOf(db, mem[last.name].resid) # {}

\* what the last upsert left for its object is what the last commit made durable
Durable(name) ==
    /\ ObjectRows(committed, name) = ObjectRows(db, name)
    /\ TimeRangeOf(committed, ResourceIdOf(db, name)) = TimeRangeOf(db, ResourceIdOf(db, name))

Occurrences(calls, fn) == Cardinality({k \in 1..Len(calls) : calls[k] = fn})

\* C6 as claimed: the revision and the notification are invoked once each, and
\* only once the data of the upsert is durable.
C6_Original ==
    (last.op = "setComponent" /\ last.ok) =>
        /\ Occurrences(last.calls, "_insertRevision") + Occurrences(last.calls, "_updateRevision") = 1
        /\ Occurrences(last.calls, "notifyChanged") = 1
        /\ Durable(last.name)

\* C6: a successful setComponent invokes the revision (the insert one on insert,
\* the update one on update) and then the notification, once each, when the
\* statements of the upsert have run in the ambient transaction, which has not
\* committed them yet; a failed setComponent invokes neither.
C6_RevisionAndNotificationOnce ==
    (last.op = "setComponent") =>
        IF last.ok
        THEN /\ last.calls = <<IF last.inserting THEN "_insertRevision" ELSE "_updateRevision",
                               "notifyChanged">>
             /\ \E o \in db.obj : o.name = last.name /\ o.text = ComponentText(last.comp)
             /\ ~Durable(last.name)
        ELSE last.calls = <<>>

\* an update through setComponent, notified before the commit
C6_Witness ==
    /\ last.op = "setComponent" /\ last.ok /\ ~last.inserting
    /\ Occurrences(last.calls, "_updateRevision") = 1
    /\ Occurrences(last.calls, "notifyChanged") = 1
    /\ committed # db

MaximumHorizon == Midnight(today + maximum_future_expansion_duration)

\* C7 as claimed: no upsert succeeds with a horizon beyond today + 5 years.
C7_Original ==
    (last.op \in UpsertOps /\ last.ok) => last.expand <= MaximumHorizon

\* the horizon the policy gives a component that has a master and recurs
RequestedHorizon ==
    IF last.until # NoDate THEN Midnight(last.until)
    ELSE Midnight(today + default_future_expansion_duration)

\* C7: for a component that has a master and is recurring or unbounded, a horizon
\* (the override, else today + 1 year) beyond today + 5 years fails the upsert with
\* the horizon error, and no such upsert succeeds beyond it; a component without a
\* master, or neither recurring nor unbounded, is expanded to 2100-01-01 and never
\* fails with the horizon error.
C7_CapOnRecurringOnly ==
    (last.op \in UpsertOps) =>
        IF last.comp.master /\ (last.comp.recurring \/ last.comp.unbounded)
        THEN /\ RequestedHorizon > MaximumHorizon
                  => (~last.ok /\ last.err = "IndexedSearchException")
             /\ last.ok => (last.expand = RequestedHorizon /\ last.expand <= MaximumHorizon)
        ELSE /\ last.err # "IndexedSearchException"
             /\ last.ok => last.expand = FarFuture

\* a recurring component refused for an override one day beyond the maximum
C7_Witness ==
    /\ last.op = "updateDatabase" /\ ~last.ok /\ last.err = "IndexedSearchException"
    /\ last.comp = Bounded3
    /\ last.until = today + maximum_future_expansion_duration + 1

C9_FarFutureHorizon ==
    (last.op \in UpsertOps /\ (~last.comp.master \/ (~last.comp.recurring /\ ~last.comp.unbounded))) =>
        /\ last.expand = FarFuture
        /\ last.err # "IndexedSearchException"
        /\ last.ok => {RowValue(r) : r \in TimeRangeOf(db, mem[last.name].resid)}
                          = ExpectedValues(last.comp, FarFuture)

\* overridden instances without a master, given an override beyond the maximum:
\* the instance beyond the maximum window is indexed
C9_Witness ==
    /\ last.op = "updateDatabase" /\ last.ok /\ last.comp = Overrides
    /\ last.until = today + maximum_future_expansion_duration + 1
    /\ \E r \in TimeRangeOf(db, mem[last.name].resid) : r.start > MaximumHorizon

\* the rows of an object as a bag of values: how many rows carry each value
SameRowValues(t1, t2, o) ==
    \A v \in {RowValue(r) : r \in TimeRangeOf(t1, o) \cup TimeRangeOf(t2, o)} :
        Cardinality({r \in TimeRangeOf(t1, o) : RowValue(r) = v})
            = Cardinality({r \in TimeRangeOf(t2, o) : RowValue(r) = v})

\* a TRANSPARENCY row without identifiers: the user, the flag, the row it hangs on
TransparencyValue(tabs, t) ==
    [user |-> t.user, transparent |-> t.transparent,
     row |-> RowValue(CHOOSE r \in tabs.tr : r.id = t.inst)]

SameTransparencyValues(t1, t2, o) ==
    /\ {TransparencyValue(t1, t) : t \in TransparencyOf(t1, o)}
           = {TransparencyValue(t2, t) : t \in TransparencyOf(t2, o)}
    /\ Cardinality(TransparencyOf(t1, o)) = Cardinality(TransparencyOf(t2, o))

\* the history row of an object
HorizonOf(tabs, o) == CHOOSE h \in tabs.hz : h.obj = o

\* an update of a stored object with the content it already has
IdenticalUpdate ==
    /\ last'.op \in UpsertOps /\ last'.ok /\ ~last'.inserting
    /\ \E o \in db.obj : o.id = mem'[last'.name].resid /\ o.text = ComponentText(last'.comp)

\* C10 as claimed: an update with the content and the override of the upsert that
\* built the rows yields the same rows, identifiers aside.
C10_Original ==
    [][(IdenticalUpdate /\ HorizonOf(db, mem'[last'.name].resid).until = last'.until) =>
          /\ SameRowValues(db, db', mem'[last'.name].resid)
          /\ SameTransparencyValues(db, db', mem'[last'.name].resid)]_vars

\* C10: an update with the content of the upsert that built the rows, expanded to
\* the same horizon, yields the same TIME_RANGE and TRANSPARENCY rows, identifiers
\* aside.  The horizon is the same for a component without a master or not
\* recurring, and for a recurring one when the override is the same or, without an
\* override, the day is the same.
C10_IdempotentAtSameHorizon ==
    [][(IdenticalUpdate /\ HorizonOf(db, mem'[last'.name].resid).expand = last'.expand) =>
          /\ SameRowValues(db, db', mem'[last'.name].resid)
          /\ SameTransparencyValues(db, db', mem'[last'.name].resid)
          /\ {r.id : r \in db'.tr} \cap {r.id : r \in db.tr} = {}]_vars

\* the unbounded series, committed, then updated with itself on the same day
C10_Witness ==
    /\ last.op = "setComponent" /\ last.ok /\ ~last.inserting /\ last.comp = Unbounded
    /\ \E o \in committed.obj : o.id = mem[last.name].resid /\ o.text = ComponentText(Unbounded)
    /\ HorizonOf(committed, mem[last.name].resid).expand = last.expand
    /\ SameRowValues(committed, db, mem[last.name].resid)
    /\ TimeRangeOf(committed, mem[last.name].resid) \cap TimeRangeOf(db, mem[last.name].resid) = {}

\* the expansion of the upsert raised InvalidOverriddenInstanceError
ExpansionRaised ==
    /\ last'.op \in UpsertOps
    /\ last'.err # "IndexedSearchException"
    /\ ExpandRaises(last'.comp, last'.reCreate)

\* C12: when the expansion raises the invalid-instance error, a migrating
\* transaction goes on with the expansion that ignores the invalid instances and
\* the upsert stores the record and the rows of that partial expansion; any other
\* transaction gets the same error and no row is written. There is no third outcome.
C12_RecoverOrPropagate ==
    [][ExpansionRaised =>
          IF migrating
          THEN /\ last'.ok
               /\ \E o \in db'.obj : /\ o.id = mem'[last'.name].resid
                                      /\ o.name = last'.name
                                      /\ o.text = ComponentText(last'.comp)
               /\ {RowValue(r) : r \in TimeRangeOf(db', mem'[last'.name].resid)}
                      = ExpectedValues(last'.comp, last'.expand)
               /\ Cardinality(TimeRangeOf(db', mem'[last'.name].resid))
                      = ExpectedCount(last'.comp, last'.expand)
          ELSE /\ ~last'.ok
               /\ last'.err = "InvalidOverriddenInstanceError"
               /\ db' = db
               /\ seq' = seq
               /\ mem' = mem]_vars

\* a migrating transaction stored the series with the invalid instance: the valid
\* occurrence is indexed, the invalid one is not
C12_Witness ==
    /\ migrating
    /\ last.op \in UpsertOps /\ last.ok /\ last.comp = Invalid /\ ~last.reCreate
    /\ {r.start : r \in TimeRangeOf(db, mem[last.name].resid)} = {At(10, 9, "UTC").wall}

\* the CALENDAR_OBJECT record of the object of the last operation
LastRecord == CHOOSE o \in db.obj : o.id = mem[last.name].resid

\* the latest start among the occurrences of c before the horizon
LastStart(c, horizon) ==
    CHOOSE m \in {i.start.wall : i \in OccurrencesBefore(c, horizon)} :
        \A i \in OccurrencesBefore(c, horizon) : i.start.wall <= m

\* C15: the insert of the bounded series of three occurrences inside the default
\* horizon leaves 3 TIME_RANGE rows, no sentinel, and RECURRANCE_MAX equal to the
\* start of the last occurrence; after every successful upsert, insert or update,
\* RECURRANCE_MAX is the start of the last instance when the recurrence is bounded
\* and NULL when it is unbounded.
C15_RecurranceMax ==
    (last.op \in UpsertOps /\ last.ok) =>
        /\ (last.inserting /\ last.comp = Bounded3) =>
               /\ last.expand = Midnight(today + default_future_expansion_duration)
               /\ Cardinality(TimeRangeOf(db, mem[last.name].resid)) = 3
               /\ SentinelRows(db, mem[last.name].resid) = {}
               /\ LastRecord.recurrance_max = At(24, 9, "UTC").wall
        /\ LastRecord.recurrance_max =
               IF last.comp.unbounded \/ OccurrencesBefore(last.comp, last.expand) = {}
               THEN Null
               ELSE LastStart(last.comp, last.expand)

\* the bounded series of three occurrences, inserted: three rows, no sentinel, and
\* the start of the third occurrence as RECURRANCE_MAX
C15_Witness ==
    /\ last.op = "setComponent" /\ last.ok /\ last.inserting /\ last.comp = Bounded3
    /\ Cardinality(TimeRangeOf(db, mem[last.name].resid)) = 3
    /\ SentinelRows(db, mem[last.name].resid) = {}
    /\ LastRecord.recurrance_max = At(24, 9, "UTC").wall
    /\ \A r \in TimeRangeOf(db, mem[last.name].resid) : r.start <= LastRecord.recurrance_max

\* every TIME_RANGE row belongs to a CALENDAR_OBJECT record and every
\* TRANSPARENCY row to a TIME_RANGE row
Integrity(tabs) ==
    /\ \A r \in tabs.tr : \E o \in tabs.obj : o.id = r.obj
    /\ \A t \in tabs.tp : \E r \in tabs.tr : r.id = t.inst

\* C16: the statements of a successful upsert are, in this order, the write of the
\* CALENDAR_OBJECT record, on update the delete of the TIME_RANGE rows of the
\* object, then the inserts of the rebuilt rows, every TRANSPARENCY insert after
\* the TIME_RANGE insert whose id it carries; they produce the tables of the
\* upsert, and after each of them every TIME_RANGE row has its CALENDAR_OBJECT
\* record and every TRANSPARENCY row its TIME_RANGE row.
C16_StatementOrder ==
    [][(last'.op \in UpsertOps /\ last'.ok) =>
          LET st == Statements(last'.name, last'.comp, last'.expand, last'.reCreate,
                               last'.inserting)
              inserts == Position(st, "insert TIME_RANGE") \cup Position(st, "insert TRANSPARENCY")
          IN  /\ st[1].kind = IF last'.inserting THEN "insert CALENDAR_OBJECT"
                                                  ELSE "update CALENDAR_OBJECT"
              /\ Position(st, "delete TIME_RANGE") = IF last'.inserting THEN {} ELSE {2}
              /\ Position(st, "insert CALENDAR_OBJECT") \cup Position(st, "update CALENDAR_OBJECT")
                     = {1}
              /\ \A k \in inserts : k > (IF last'.inserting THEN 1 ELSE 2)
              /\ \A k \in Position(st, "insert TRANSPARENCY") :
                     \E j \in Position(st, "insert TIME_RANGE") :
                         j < k /\ st[j].arg.id = st[k].arg.inst
              /\ \A k \in 0..Len(st) : Integrity(Run(db, SubSeq(st, 1, k)))
              /\ Run(db, st) = [db' EXCEPT !.hz = db.hz]]_vars

\* the unbounded series stored over a committed unbounded series: rows with
\* per-user transparency were deleted and rebuilt
C16_Witness ==
    /\ last.op \in UpsertOps /\ last.ok /\ ~last.inserting /\ last.comp = Unbounded
    /\ TransparencyOf(committed, mem[last.name].resid) # {}
    /\ TransparencyOf(db, mem[last.name].resid) # {}
    /\ TransparencyOf(db, mem[last.name].resid) \cap committed.tp = {}
    /\ Integrity(db)

\* the index row value of occurrence i
OccurrenceValue(i) ==
    [floating |-> i.start.tz = "none", start |-> i.start.wall, end |-> i.end.wall,
     fbtype |-> FBCode(i.fb), transparent |-> i.transp]

\* the TRANSPARENCY rows the expansion of c up to the horizon calls for, by value
ExpectedTransparency(c, horizon) ==
    {[user |-> p.user, transparent |-> p.transp, row |-> OccurrenceValue(i)] :
        <<i, p>> \in {<<i, p>> \in OccurrencesBefore(c, horizon) \X c.peruser : p.rid = i.rid}}
    \cup (IF c.unbounded
          THEN {[user |-> p.user, transparent |-> p.transp, row |-> SentinelValue] :
                   p \in {q \in c.peruser : q.rid = Null}}
          ELSE {})

\* C17: after a successful upsert the TRANSPARENCY rows of the object are, one
\* each, the (user, flag) pairs of the per-user transparency of each indexed
\* instance, looked up by the recurrence id of the instance and attached to its
\* row, and for an unbounded series the pairs of the series-level lookup attached
\* to the sentinel row; no TRANSPARENCY row of the rows the object had before
\* remains.
C17_TransparencyRows ==
    [][(last'.op \in UpsertOps /\ last'.ok) =>
          LET o == mem'[last'.name].resid
              rows == TransparencyOf(db', o)
              expected == ExpectedTransparency(last'.comp, last'.expand)
          IN  /\ {TransparencyValue(db', t) : t \in rows} = expected
              /\ Cardinality(rows) = Cardinality(expected)
              /\ TransparencyOf(db, o) \cap db'.tp = {}
              /\ \A t \in db'.tp : t.inst \notin {r.id : r \in TimeRangeOf(db, o)}]_vars

\* the unbounded series stored again: one row for the instance with its own
\* per-user transparency, two for the sentinel
C17_Witness ==
    /\ last.op \in UpsertOps /\ last.ok /\ ~last.inserting /\ last.comp = Unbounded
    /\ TransparencyOf(committed, mem[last.name].resid) # {}
    /\ Cardinality({t \in TransparencyOf(db, mem[last.name].resid) :
                        TransparencyValue(db, t).row = SentinelValue}) = 2
    /\ Cardinality({t \in TransparencyOf(db, mem[last.name].resid) :
                        TransparencyValue(db, t).row # SentinelValue}) = 1

----------------------------------------------------------------------------
(* Properties of the attachment store (checked under SpecAttach) *)

Range(q) == {q[k] : k \in 1..Len(q)}

\* C5: removeAttachmentWithName deletes the row in the ambient transaction and
\* leaves the bytes alone, registering their removal as a post-commit callback; a
\* file disappears only in a commit, by a callback of the committing transaction;
\* an abort drops the callbacks and leaves every file in place.
C5_BytesRemovedAfterCommitOnly ==
    [][/\ last'.op = "removeAttachmentWithName" =>
             /\ files' = files
             /\ ~\E a \in db'.att : a.obj = mem[last'.name].resid /\ a.path = last'.att
             /\ committed' = committed
             /\ <<uid(last'.name), last'.att>> \in Range(postCommit')
       /\ \A p \in Paths : (files[p].exists /\ ~files'[p].exists) =>
             (last'.op = "commit" /\ p \in Range(postCommit) /\ committed' = db)
       /\ last'.op = "abort" => (files' = files /\ postCommit' = <<>>)]_vars

\* an attachment written and committed, then removed in a transaction that was
\* rolled back: the row is back and the bytes are still there
C5_Witness ==
    /\ last.op = "abort" /\ last.pending # <<>>
    /\ \A p \in Range(last.pending) : files[p].exists
    /\ \E a \in db.att : <<uid("a.ics"), a.path>> \in Range(last.pending)

----------------------------------------------------------------------------
(* Properties of one transfer (checked under SpecTransfer) *)

RECURSIVE Concat(_)
\* the concatenation of a sequence of chunks
Concat(chunks) == IF chunks = <<>> THEN <<>> ELSE Head(chunks) \o Concat(Tail(chunks))

\* the sink that the step closes
Closing(t) == last'.op = "loseConnection" /\ t \in sinks /\ sinks' = sinks \ {t}

\* C11: when a sink is closed, retrieve returns the concatenation of the chunks
\* it was given, in the order of the writes; the SIZE of the row is the length of
\* that concatenation and its MD5 is the digest of the concatenation hashed in one
\* pass.
C11_RoundTrip ==
    [][\A t \in sinks : Closing(t) =>
          LET whole == Concat(t.chunks)
          IN  /\ files'[AttachmentPath(t.obj, t.att)].exists
              /\ retrieve(t.obj, t.att)' = whole
              /\ \E a \in db'.att : a.path = t.att
              /\ \A a \in db'.att : a.path = t.att =>
                     /\ a.size = Len(whole)
                     /\ a.md5 = hexdigest(update(md5, whole))
                     /\ a.ctype = generateContentType(t.contentType)]_vars

\* a sink closed after the chunks <<2>> and <<1, 2>>: three bytes are retrieved
C11_Witness ==
    /\ last.op = "loseConnection"
    /\ retrieve(last.name, last.att) = <<2, 1, 2>>
    /\ \E a \in db.att : a.path = last.att /\ a.size = 3 /\ a.md5 = hexdigest(<<2, 1, 2>>)

----------------------------------------------------------------------------
(* Properties of the removal (checked under SpecAttach) *)

\* C13: removeAttachmentWithName for a name of which the object has no attachment
\* changes no ATTACHMENT row and no file, and at the commit of the transaction
\* none of the removals it registered raises or removes a file.
C13_RemoveOfNothingIsNoOp ==
    [][/\ (last'.op = "removeAttachmentWithName"
            /\ ~HasAttachment(db, mem[last'.name].resid, last'.att)) =>
              (db'.att = db.att /\ files' = files)
       /\ last'.op = "commit" =>
              \A k \in 1..Len(postCommit) : postCommit[k] \in noRow =>
                  /\ ~RemoveRaises(files, postCommit, k)
                  /\ files'[postCommit[k]] = files[postCommit[k]]]_vars

----------------------------------------------------------------------------
(* Properties of concurrent writers (checked under SpecRace) *)

\* writer w wrote bytes, its close completed, and its transaction has ended
Finished(w) ==
    /\ race.w[w].pc \in {"committed", "rolledback"}
    /\ race.w[w].sink.buf # <<>>
    /\ \E k \in 1..Len(race.order) : race.order[k] = w

\* the durable row of the attachment the writers share
RaceRow == CHOOSE a \in committed.att : a.path = RaceAtt

\* C14: once both transactions that wrote the name have finished, by commit or by
\* rollback, the SIZE and the MD5 of the durable row describe the bytes of the file
\* at the path, and both are those of the writer whose close completed last.
C14_LastCloseWins ==
    (\A w \in Writers : Finished(w)) =>
        LET winner == race.w[race.order[Len(race.order)]].sink
            bytes == retrieve(RaceName, RaceAtt)
        IN  /\ RaceRow.size = Len(bytes)
            /\ RaceRow.md5 = hexdigest(update(md5, bytes))
            /\ bytes = winner.buf
            /\ RaceRow.md5 = hexdigest(winner.hash)

\* when both writers commit, the row and the file are those of the writer whose
\* close completed last
BothCommitted ==
    (\A w \in Writers : race.w[w].pc = "committed") =>
        LET winner == race.w[race.order[Len(race.order)]].sink
        IN  /\ RaceRow.size = Len(winner.buf)
            /\ RaceRow.md5 = hexdigest(winner.hash)
            /\ retrieve(RaceName, RaceAtt) = winner.buf

----------------------------------------------------------------------------
(* The frame of the upsert (checked under SpecFrame) *)

\* what the tables hold for the objects other than resid
OtherObjects(tabs, resid) ==
    [obj |-> {o \in tabs.obj : o.id # resid},
     tr |-> {r \in tabs.tr : r.obj # resid},
     tp |-> {t \in tabs.tp : \E r \in tabs.tr : r.id = t.inst /\ r.obj # resid}]

\* C18: an insert or update of an object, successful or failed, leaves the
\* CALENDAR_OBJECT record, the TIME_RANGE rows and the TRANSPARENCY rows of every
\* other object as they were, and every ATTACHMENT row and attachment file.
C18_UpsertFrame ==
    [][last'.op \in UpsertOps =>
          /\ OtherObjects(db', mem'[last'.name].resid) = OtherObjects(db, mem'[last'.name].resid)
          /\ \A n \in Names \ {last'.name} :
                 /\ ObjectRows(db', n) = ObjectRows(db, n)
                 /\ ResourceIdOf(db', n) = ResourceIdOf(db, n)
                 /\ TimeRangeOf(db', ResourceIdOf(db, n)) = TimeRangeOf(db, ResourceIdOf(db, n))
                 /\ TransparencyOf(db', ResourceIdOf(db, n)) = TransparencyOf(db, ResourceIdOf(db, n))
          /\ db'.att = db.att
          /\ files' = files
          /\ committed' = committed]_vars

\* a.ics updated while b.ics holds its rows, its per-user transparency, its
\* attachment row and the bytes of the attachment
C18_Witness ==
    /\ last.op \in UpsertOps /\ last.ok /\ ~last.inserting /\ last.name = "a.ics"
    /\ TimeRangeOf(db, mem[last.name].resid) # {}
    /\ Cardinality(TimeRangeOf(db, ResourceIdOf(db, "b.ics"))) = 2
    /\ Cardinality(TransparencyOf(db, ResourceIdOf(db, "b.ics"))) = 3
    /\ \E a \in db.att : a.obj = ResourceIdOf(db, "b.ics") /\ a.size = 1
    /\ files[<<resourceUID(Unbounded), "doc">>].exists

----------------------------------------------------------------------------
(* Rows and files when a transaction ends (checked under SpecAttach) *)

\* the path of the file of an ATTACHMENT row: that of its object and its name
PathOfRow(tabs, a) ==
    AttachmentPath(CHOOSE n \in Names : ResourceIdOf(tabs, n) = a.obj, a.path)

\* the row was updated by a loseConnection: its MD5 is a digest
ClosedRow(a) == a.md5 # EmptyMD5

\* C19: when the transaction has committed and its post-commit callbacks have run,
\* every ATTACHMENT row that a loseConnection updated has its file at the path
\* derived from its object and its name.
C19_ClosedRowsHaveBytes ==
    (last.op = "commit") =>
        \A a \in committed.att : ClosedRow(a) => files[PathOfRow(committed, a)].exists

\* C20: when a transaction has ended, by commit or by rollback, every attachment
\* file on disk has its ATTACHMENT row.
C20_NoOrphanedBytes ==
    (last.op \in {"commit", "abort"}) =>
        \A p \in Paths : files[p].exists =>
            \E a \in committed.att : PathOfRow(committed, a) = p

----------------------------------------------------------------------------
(* Attachments and their objects (checked under SpecShare) *)

\* C21: attachmentWithName(n) on an object reports an attachment only when the
\* object owns an ATTACHMENT row named n, one of those attachments() lists; and
\* the close of a sink obtained on an object leaves every ATTACHMENT row owned by
\* another object as it was.
C21_AttachmentsNotShared ==
    [][/\ \A n \in Names, a \in AttNames :
             attachmentWithName(n, a).found => a \in attachments(n)
       /\ \A t \in sinks : Closing(t) =>
             {a \in db'.att : a.obj # mem[t.obj].resid}
                 = {a \in db.att : a.obj # mem[t.obj].resid}]_vars

----------------------------------------------------------------------------
(* The cached text (checked under SpecText) *)

\* the object has a text: a cached one, or a record to read it from
HasText(name) == mem[name].text # NoText \/ mem[name].resid # Null

\* text() returns the ICALENDAR_TEXT of the record of the object, as the
\* transaction sees it
Coherent(name) ==
    \E o \in db.obj : o.id = mem[name].resid /\ o.name = name /\ o.text = text(name)

\* C22: in every state text() of an object returns the ICALENDAR_TEXT of its
\* CALENDAR_OBJECT record as the current transaction sees it; and an upsert of a
\* stored object that fails, on the horizon, on an invalid instance or on a
\* statement, leaves text() returning what it returned before.
C22_CachedTextCoherent ==
    [][/\ \A n \in Names : HasText(n) => Coherent(n)
       /\ \A n \in Names :
              (last'.op \in UpsertOps /\ ~last'.ok /\ last'.name = n /\ mem[n].resid # Null) =>
                  text(n)' = text(n)]_vars

====
